---- MODULE Spec2Model ----
(***************************************************************************)
(* A model of ezstream's util.c: the iconv-based transcoder (_iconvert and *)
(* its two wrappers), the pid-file manager (util_write_pid_file and the    *)
(* exit hook _cleanup_pidfile), the shell quoting (util_shellquote,        *)
(* util_replacestring) and the URL parser (util_urlparse).                 *)
(*                                                                         *)
(* SpecConv is the transcoder: one action per entry, loop iteration,       *)
(* close and return.  SpecPid is the pid-file manager of a process and of  *)
(* one forked child.  SpecStr is the calls of the two quoting functions    *)
(* and SpecUrl the calls of util_urlparse on a caller's three variables.   *)
(***************************************************************************)
EXTENDS Integers, Sequences, FiniteSets, TLC

\* ------------------------------------------------------------------ bounds

\* The longest input string handed to _iconvert.
MaxLen == 4
\* sizeof(buf): util.c uses the platform's BUFSIZ (1024 when undefined); the
\* model scales it down so that full buffers happen on short inputs.
BUFSIZ == 3
\* The width of size_t in bits, scaled down.
SizeBits == 4

\* The longest argument of util_shellquote.
MaxQuoteLen == 5

\* The longest needle and the longest replacement of util_replacestring.
MaxFromLen == 2
MaxToLen == 2

\* SHELLQUOTE_INLEN_MAX, scaled down from 8191.
SHELLQUOTE_INLEN_MAX == 2

\* ------------------------------------------------------------ C values

\* The null pointer where a string is expected: no string of bytes.
NULLPTR == <<"NULL">>
\* The terminating null byte.
NUL == "NUL"
\* A byte of memory that was allocated and not yet written.
JUNK == "junk"
\* The placeholder byte.
QMARK == "?"

\* size_t arithmetic: values are taken modulo 2^SizeBits.
SizeMod == 2 ^ SizeBits
Wrap(n) == (n + SizeMod) % SizeMod

\* The bytes of an input string: "a" is a one-byte character, "m" "t" a
\* two-byte character (lead and trail byte); a lone "t", an "m" followed by
\* anything but "t" and an "m" at the end of the input are malformed.
InBytes == {"a", "m", "t"}
Strings == UNION {[1..n -> InBytes] : n \in 0..MaxLen}

\* The C string held by a piece of memory: the bytes before the first NUL.
RECURSIVE CStr(_)
CStr(mem) ==
    IF mem = <<>> \/ Head(mem) = NUL THEN <<>>
    ELSE <<Head(mem)>> \o CStr(Tail(mem))

\* xstrdup: a fresh copy, byte for byte.
xstrdup(s) == s

\* ------------------------------------------------------------ the modes

Modes == {"ICONV_REPLACE", "ICONV_TRANSLIT", "ICONV_IGNORE"}

\* nl_langinfo(CODESET): the name of the locale's codeset.
Codeset == "CODESET"
\* The empty encoding name: iconv_open's name of the native encoding.
Native == ""

\* The two callers of _iconvert and the (from, to) each passes.
Callers == {"util_char2utf8", "util_utf82char"}
FromOf(caller) == IF caller = "util_char2utf8" THEN Codeset ELSE "UTF-8"
ToOf(caller) == IF caller = "util_char2utf8" THEN "UTF-8" ELSE Codeset

\* The target name qualified by the mode: <<name, suffix>>.
Tocode(t, m) ==
    CASE m = "ICONV_TRANSLIT" -> <<t, "//TRANSLIT">>
      [] m = "ICONV_IGNORE" -> <<t, "//IGNORE">>
      [] OTHER -> <<t, "">>

\* An encoding name as iconv_open receives it.
Plain(name) == <<name, "">>

\* --------------------------------------------------------- iconv_open

\* The conversions the platform's iconv supports are a set of <<to, from>>
\* pairs; iconv_open succeeds exactly on these.
iconv_open(sup, t, f) == <<t, f>> \in sup

\* The three attempts of _iconvert, in the order of the && chain.
Attempt1(tc, f) == <<tc, Plain(f)>>
Attempt2(tc, f) == <<Plain(Native), Plain(f)>>
Attempt3(tc, f) == <<tc, Plain(Native)>>

\* A variant that asks for the native target first.
OpenChainNativeFirst(sup, tc, f) ==
    IF iconv_open(sup, Attempt2(tc, f)[1], Attempt2(tc, f)[2])
    THEN <<Attempt2(tc, f)>>
    ELSE IF iconv_open(sup, Attempt1(tc, f)[1], Attempt1(tc, f)[2])
    THEN <<Attempt2(tc, f), Attempt1(tc, f)>>
    ELSE <<Attempt2(tc, f), Attempt1(tc, f), Attempt3(tc, f)>>

\* The iconv_open calls made by the short-circuit chain, in order: each is
\* made only when the ones before it failed.
OpenChain(sup, tc, f) ==
    IF iconv_open(sup, Attempt1(tc, f)[1], Attempt1(tc, f)[2])
    THEN <<Attempt1(tc, f)>>
    ELSE IF iconv_open(sup, Attempt2(tc, f)[1], Attempt2(tc, f)[2])
    THEN <<Attempt1(tc, f), Attempt2(tc, f)>>
    ELSE <<Attempt1(tc, f), Attempt2(tc, f), Attempt3(tc, f)>>

\* Whether the chain ended with a handle: its last call succeeded.
ChainOpened(sup, chain) ==
    iconv_open(sup, chain[Len(chain)][1], chain[Len(chain)][2])

\* -------------------------------------------------------------- iconv

\* One call of iconv on the unconsumed input with avail bytes of room: it
\* converts characters in order until the input ends (OK), the next
\* character's bytes do not fit (E2BIG), the input is malformed (EILSEQ) or
\* ends inside a character (EINVAL).  On these errors the input is left at
\* the character that could not be converted.
\*
\* ign is the behaviour of glibc's iconv on a handle whose target carries
\* //IGNORE (iconv/loop.c, STANDARD_FROM_LOOP_ERR_HANDLER): it steps over a
\* malformed byte and goes on, but keeps the result of the call at "illegal
\* input", so that the call which used up its input still returns (size_t)-1
\* with errno EILSEQ.  bad says that this call has stepped over a byte.
RECURSIVE iconv_from(_, _, _, _)
iconv_from(inp, avail, ign, bad) ==
    LET Stop(e) == [consumed |-> 0, out |-> <<>>, err |-> e]
        Skip == LET r == iconv_from(Tail(inp), avail, ign, TRUE)
                IN  [r EXCEPT !.consumed = @ + 1]
    IN  IF inp = <<>> THEN Stop(IF bad THEN "EILSEQ" ELSE "OK")
        ELSE IF Head(inp) = "a" THEN
            IF avail < 1 THEN Stop("E2BIG")
            ELSE LET r == iconv_from(Tail(inp), avail - 1, ign, bad)
                 IN  [consumed |-> r.consumed + 1, out |-> <<"A">> \o r.out,
                      err |-> r.err]
        ELSE IF Head(inp) = "m" THEN
            IF Len(inp) = 1 THEN Stop("EINVAL")
            ELSE IF inp[2] # "t" THEN (IF ign THEN Skip ELSE Stop("EILSEQ"))
            ELSE IF avail < 2 THEN Stop("E2BIG")
            ELSE LET r == iconv_from(Tail(Tail(inp)), avail - 2, ign, bad)
                 IN  [consumed |-> r.consumed + 2,
                      out |-> <<"U", "V">> \o r.out, err |-> r.err]
        ELSE IF ign THEN Skip ELSE Stop("EILSEQ")

iconv(inp, avail, ign) == iconv_from(inp, avail, ign, FALSE)

\* Whether the handle the chain ended with has a target that carries
\* //IGNORE: it was opened by the first or the third attempt in that mode.
IgnoreHandle(chain) == chain[Len(chain)][1][2] = "//IGNORE"

\* ------------------------------------------------- the transcoder's state

VARIABLES
    pc,           \* "idle", "loop" (at the while test) or "done" (returned)
    caller,       \* the wrapper that called _iconvert
    in_str,       \* the argument: a string or NULLPTR
    mode,
    supported,    \* the <<to, from>> pairs iconv_open accepts during the call
    ignoring,     \* the handle steps over malformed input (see iconv)
    tocode,
    cd,           \* the handle, an index of handles; 0 is (iconv_t)-1
    ip,           \* the input cursor, as an offset into in_str
    input_len,    \* size_t: the unconsumed input bytes
    output,       \* the accumulator's memory, output_size bytes
    output_size,
    out_pos,
    buf,          \* the chunk buffer, BUFSIZ bytes
    bufavail,
    ret,          \* the string returned
    opens,        \* the iconv_open calls of this call, in order
    handles,      \* the handles opened and not yet closed exactly once, and
                  \* this call's handle: its iconv_close calls, and whether
                  \* an earlier call opened it (stale)
    rounds,       \* the loop iterations of this call
    qmarks,       \* the placeholders the loop wrote in this call
    overrun,      \* a write of this call landed beyond buf
    seen,         \* the outcomes of this call's iconv rounds
    close_rc,     \* what iconv_close reported: "none", "ok" or "fail"
    lastRound,    \* the last round: what iconv did in it
    produced      \* the bytes of all rounds so far, placeholders included

convVars == <<pc, caller, in_str, mode, supported, ignoring, tocode, cd, ip, input_len,
              output, output_size, out_pos, buf, bufavail, ret, opens,
              handles, rounds, qmarks, overrun, seen, close_rc,
              lastRound, produced>>

NoRound == [err |-> "none", consumed |-> 0, out |-> <<>>, count |-> 0]

\* No call of _iconvert has been made.
ConvInit ==
    /\ pc = "idle"
    /\ handles = <<>>
    /\ caller = "none"
    /\ in_str = NULLPTR
    /\ mode = "none"
    /\ supported = {}
    /\ ignoring = FALSE
    /\ tocode = Plain("")
    /\ cd = 0
    /\ ip = 0
    /\ input_len = 0
    /\ output = <<>>
    /\ output_size = 0
    /\ out_pos = 0
    /\ buf = [i \in 1..BUFSIZ |-> JUNK]
    /\ bufavail = 0
    /\ ret = NULLPTR
    /\ opens = <<>>
    /\ rounds = 0
    /\ qmarks = 0
    /\ overrun = FALSE
    /\ seen = {}
    /\ close_rc = "none"
    /\ lastRound = NoRound
    /\ produced = <<>>


\* ------------------------------------------------------- memory helpers

\* xcalloc(n, 1): n zero bytes.
xcalloc(n) == [i \in 1..n |-> NUL]

\* xreallocarray(mem, n, 1): the old bytes kept, the new ones unwritten.
xreallocarray(mem, n) ==
    [i \in 1..n |-> IF i <= Len(mem) THEN mem[i] ELSE JUNK]

\* A store to buf[k] (k counts from 0): it lands in buf when k < sizeof(buf).
WriteBuf(b, k, v) == IF k < BUFSIZ THEN [b EXCEPT ![k + 1] = v] ELSE b

\* The stores of the bytes iconv produced, from buf[0] on.
RECURSIVE WriteBytes(_, _, _)
WriteBytes(b, k, bytes) ==
    IF bytes = <<>> THEN b
    ELSE WriteBytes(WriteBuf(b, k, Head(bytes)), k + 1, Tail(bytes))

\* ------------------------------------------------------ the loop's pieces

\* The test of the if: iconv returned (size_t)-1 and errno is not E2BIG.
NeedsPlaceholderAny(r) == r.err # "OK"

NeedsPlaceholder(r) == r.err # "OK" /\ r.err # "E2BIG"

\* The body of the if without the step over the offending byte.
PlaceholderNoSkip(st) ==
    [st EXCEPT !.buf = WriteBuf(st.buf, st.bp, QMARK),
               !.over = st.over \/ st.bp >= BUFSIZ,
               !.bp = st.bp + 1,
               !.bufavail = Wrap(st.bufavail - 1),
               !.qm = st.qm + 1]

\* count = sizeof(buf) - bufavail, one more than the bytes of the round.
CountWithTerminator(avail) == Wrap(BUFSIZ - avail)

\* The body of the if: *bp++ = '?'; ip++; input_len--; bufavail--.
Placeholder(st) ==
    [st EXCEPT !.buf = WriteBuf(st.buf, st.bp, QMARK),
               !.over = st.over \/ st.bp >= BUFSIZ,
               !.bp = st.bp + 1,
               !.ip = st.ip + 1,
               !.input_len = Wrap(st.input_len - 1),
               !.bufavail = Wrap(st.bufavail - 1),
               !.qm = st.qm + 1]

\* *bp = '\0'.
Terminate(st) ==
    [st EXCEPT !.buf = WriteBuf(st.buf, st.bp, NUL),
               !.over = st.over \/ st.bp >= BUFSIZ]

\* count = sizeof(buf) - bufavail - 1.
Count(avail) == Wrap(BUFSIZ - avail - 1)

\* The append of buf's first count bytes to the accumulator.
AppendChunk(out, osize, opos, b, count) ==
    LET nsize == Wrap(osize + count)
        grown == xreallocarray(out, nsize)
        copied == [i \in 1..nsize |->
                     IF opos < i /\ i <= opos + count
                     THEN b[i - opos] ELSE grown[i]]
        npos == Wrap(opos + count)
    IN  [output |-> [copied EXCEPT ![npos + 1] = NUL],
         output_size |-> nsize,
         out_pos |-> npos]

\* ----------------------------------------------------- closing and return

\* return (xstrdup("")) for a null in_str.
NullResultNull == NULLPTR

NullResult == xstrdup(<<>>)

\* A close that is skipped.
iconv_close_skipped(hs, h) == hs

\* iconv_close(cd): the one call on the handle, whether it reports 0 or -1.
iconv_close(hs, h) == [hs EXCEPT ![h] = [@ EXCEPT !.closes = @ + 1]]

\* The result that ignores a failed close.
CloseResultKeep(ok, out, in) == CStr(out)

\* What _iconvert returns after the loop: the accumulator, or a copy of the
\* input when iconv_close failed.
CloseResult(ok, out, in) == IF ok THEN CStr(out) ELSE xstrdup(in)

\* ------------------------------------------------ the pid-file's state

VARIABLES
    alive,             \* per process: "unborn", "running" or "exited"
    pidfile_path,      \* per process: a path or NULL
    pidfile_file,      \* per process: NULL or the path the open stream is on
    pidfile_pid,
    pidfile_numlocks,
    hooks,             \* per process: _cleanup_pidfile is registered
    errno,
    fs,                \* the file system: what each path holds
    nopen,             \* per process: its open pid-file streams
    last,              \* per process: its last call with a non-null path
    returned,          \* the call that has just returned, if one has
    removed            \* per process: the paths its exit hook unlinked

pidVars == <<alive, pidfile_path, pidfile_file, pidfile_pid, pidfile_numlocks,
             hooks, errno, fs, nopen, last, returned, removed>>

\* ------------------------------------------ the string helpers' state

VARIABLES
    quoted,            \* the last call of util_shellquote: input and buffer
    replaced           \* the last call of util_replacestring

strVars == <<quoted, replaced>>

\* ------------------------------------------------ the URL parser's state

VARIABLES
    url,               \* the argument of the last call of util_urlparse
    hostname,          \* the caller's char *: an address of heap, or NULL
    port,              \* the caller's unsigned short
    mountname,         \* the caller's char *
    heap,              \* the blocks xmalloc has handed out
    urlparse_ret       \* what the last call returned, and what it logged

urlVars == <<url, hostname, port, mountname, heap, urlparse_ret>>

vars == <<convVars, pidVars, strVars, urlVars>>

\* ------------------------------------------------ the transcoder's steps

\* _iconvert from its entry to the while test: the null check, the qualified
\* target, the iconv_open chain and the set-up of the cursor and of the
\* accumulator.
Enter ==
    /\ pc = "idle"
    /\ \E c \in Callers, s \in Strings \cup {NULLPTR}, m \in Modes :
         LET tc == Tocode(ToOf(c), m)
             f == FromOf(c)
         IN  \E sup \in SUBSET {Attempt1(tc, f), Attempt2(tc, f),
                                Attempt3(tc, f)} :
               LET chain == OpenChain(sup, tc, f)
               IN  /\ caller' = c
                   /\ in_str' = s
                   /\ mode' = m
                   /\ supported' = sup
                   /\ IF s = NULLPTR
                      THEN /\ pc' = "done"
                           /\ ret' = NullResult
                           /\ ignoring' = FALSE
                           /\ UNCHANGED <<tocode, cd, ip, input_len, output,
                                          output_size, out_pos, opens,
                                          handles>>
                      ELSE IF ~ChainOpened(sup, chain)
                      THEN /\ pc' = "done"
                           /\ tocode' = tc
                           /\ opens' = chain
                           /\ ret' = xstrdup(s)
                           /\ ignoring' = FALSE
                           /\ UNCHANGED <<cd, ip, input_len, output,
                                          output_size, out_pos, handles>>
                      ELSE /\ pc' = "loop"
                           /\ tocode' = tc
                           /\ opens' = chain
                           /\ handles' = Append(handles,
                                  [closes |-> 0, stale |-> FALSE])
                           /\ cd' = Len(handles) + 1
                           /\ ip' = 0
                           /\ input_len' = Wrap(Len(s))
                           /\ output_size' = 1
                           /\ output' = [xcalloc(1) EXCEPT ![1] = NUL]
                           /\ out_pos' = 0
                           /\ \E ign \in BOOLEAN :
                                /\ ign => IgnoreHandle(chain)
                                /\ ignoring' = ign
                           /\ UNCHANGED ret
    /\ UNCHANGED <<buf, bufavail, rounds, qmarks, overrun, seen, close_rc,
                   lastRound, produced>>
    /\ UNCHANGED <<pidVars, strVars, urlVars>>

\* Where the store of a byte to buf[sizeof(buf)] can land.  The locals
\* whose address _iconvert takes (ip, input_len, bp, bufavail) are in memory
\* next to buf in every build: the byte is lost in bp, which is set anew
\* before its next use, or in unused space ("spare"); it clears the low byte
\* of input_len; or it clears one of ip or bufavail, after which the copy or
\* the next read is outside every object ("fault").
StrayStores == {"spare", "input_len", "fault"}

\* A size_t with its low byte cleared; a size_t narrower than a byte is
\* cleared whole.
ClearLowByte(v) == v - (v % (IF SizeMod < 256 THEN SizeMod ELSE 256))

\* One iteration of the while loop, reading input that lies in in_str.
Round ==
    /\ pc = "loop"
    /\ input_len > 0
    /\ ip + input_len <= Len(in_str)
    /\ LET avail0 == BUFSIZ - 1
           rest == SubSeq(in_str, ip + 1, ip + input_len)
           r == iconv(rest, avail0, ignoring)
           st1 == [buf |-> WriteBytes(WriteBuf(buf, 0, NUL), 0, r.out),
                   bp |-> Len(r.out),
                   ip |-> ip + r.consumed,
                   input_len |-> Wrap(input_len - r.consumed),
                   bufavail |-> Wrap(avail0 - Len(r.out)),
                   over |-> overrun,
                   qm |-> qmarks]
           st2 == IF NeedsPlaceholder(r) THEN Placeholder(st1) ELSE st1
           st3 == Terminate(st2)
           count == Count(st3.bufavail)
           app == AppendChunk(output, output_size, out_pos, st3.buf, count)
           stray == st2.bp >= BUFSIZ
       IN  /\ buf' = st3.buf
           /\ bufavail' = st3.bufavail
           /\ ip' = st3.ip
           /\ \E hit \in (IF stray THEN StrayStores ELSE {"spare"}) :
                /\ input_len' = IF hit = "input_len"
                                THEN ClearLowByte(st3.input_len)
                                ELSE st3.input_len
                /\ pc' = IF hit = "fault" THEN "fault" ELSE pc
           /\ overrun' = st3.over
           /\ qmarks' = st3.qm
           /\ output' = app.output
           /\ output_size' = app.output_size
           /\ out_pos' = app.out_pos
           /\ seen' = seen \cup {r.err}
           /\ lastRound' = [err |-> r.err, consumed |-> r.consumed,
                            out |-> r.out, count |-> count]
           /\ produced' = produced \o r.out \o
                              (IF r.err \in {"OK", "E2BIG"} THEN <<>>
                               ELSE <<QMARK>>)
    /\ rounds' = rounds + 1
    /\ UNCHANGED <<caller, in_str, mode, supported, ignoring, tocode, cd,
                   ret, opens, handles, close_rc>>
    /\ UNCHANGED <<pidVars, strVars, urlVars>>

\* The end of _iconvert after the loop: iconv_close, which may fail, and the
\* return.
Finish ==
    /\ pc = "loop"
    /\ input_len = 0
    /\ \E ok \in BOOLEAN :
         /\ handles' = iconv_close(handles, cd)
         /\ close_rc' = IF ok THEN "ok" ELSE "fail"
         /\ ret' = CloseResult(ok, output, in_str)
    /\ pc' = "done"
    /\ UNCHANGED <<caller, in_str, mode, supported, ignoring, tocode, cd, ip,
                   input_len, output, output_size, out_pos, buf, bufavail,
                   opens, rounds, qmarks, overrun, seen, lastRound,
                   produced>>
    /\ UNCHANGED <<pidVars, strVars, urlVars>>

\* An iteration that hands iconv a cursor and a length that reach beyond
\* in_str: the read is undefined, and the call does not return.
ReadPastEnd ==
    /\ pc = "loop"
    /\ input_len > 0
    /\ ip + input_len > Len(in_str)
    /\ pc' = "fault"
    /\ UNCHANGED <<caller, in_str, mode, supported, ignoring, tocode, cd, ip,
                   input_len, output, output_size, out_pos, buf, bufavail,
                   ret, opens, handles, rounds, qmarks, overrun, seen,
                   close_rc, lastRound, produced>>
    /\ UNCHANGED <<pidVars, strVars, urlVars>>

\* The handles a returned call leaves behind: those that were not closed
\* exactly once.  They belong to no later call.
StaleHandles(hs) ==
    LET Left(h) == h.closes # 1
        kept == SelectSeq(hs, Left)
    IN  [i \in 1..Len(kept) |-> [kept[i] EXCEPT !.stale = TRUE]]

\* The caller takes the string; the locals of the call are gone.
Return ==
    /\ pc = "done"
    /\ pc' = "idle"
    /\ caller' = "none"
    /\ in_str' = NULLPTR
    /\ mode' = "none"
    /\ supported' = {}
    /\ ignoring' = FALSE
    /\ tocode' = Plain("")
    /\ cd' = 0
    /\ ip' = 0
    /\ input_len' = 0
    /\ output' = <<>>
    /\ output_size' = 0
    /\ out_pos' = 0
    /\ buf' = [i \in 1..BUFSIZ |-> JUNK]
    /\ bufavail' = 0
    /\ ret' = NULLPTR
    /\ opens' = <<>>
    /\ rounds' = 0
    /\ qmarks' = 0
    /\ overrun' = FALSE
    /\ seen' = {}
    /\ close_rc' = "none"
    /\ lastRound' = NoRound
    /\ produced' = <<>>
    /\ handles' = StaleHandles(handles)
    /\ UNCHANGED <<pidVars, strVars, urlVars>>

\* ---------------------------------------------------- the pid-file manager

Procs == {1, 2}
Paths == {"P", "Q"}
NULL == "NULL"
ABSENT == "absent"

\* No call has just returned.
NoCall == [proc |-> 0, ret |-> 0, path |-> NULL, stage |-> "none",
           err |-> "0"]

PidInit ==
    /\ alive = [p \in Procs |-> IF p = 1 THEN "running" ELSE "unborn"]
    /\ pidfile_path = [p \in Procs |-> NULL]
    /\ pidfile_file = [p \in Procs |-> NULL]
    /\ pidfile_pid = [p \in Procs |-> 0]
    /\ pidfile_numlocks = [p \in Procs |-> 0]
    /\ hooks = [p \in Procs |-> FALSE]
    /\ errno = [p \in Procs |-> "0"]
    /\ fs = [f \in Paths |-> ABSENT]
    /\ nopen = [p \in Procs |-> 0]
    /\ last = [p \in Procs |-> [ret |-> 0, path |-> NULL]]
    /\ returned = NoCall
    /\ removed = [p \in Procs |-> {}]

\* getpid() in process self.
getpid(self) == self

\* The file-scope variables of process self, with its errno, its open
\* pid-file streams and whether its exit hook is registered.
Globals(self) ==
    [path |-> pidfile_path[self], file |-> pidfile_file[self],
     pid |-> pidfile_pid[self], numlocks |-> pidfile_numlocks[self],
     hooks |-> hooks[self], errno |-> errno[self], nopen |-> nopen[self]]

\* The error codes a failing call sets, and what the calls of a rollback
\* (unlink, xfree, fclose) may together do to errno: keep it, or set it.
LibErr == {"EACCES"}
Clob == {"keep", "EBADF"}
Clobber(e, c) == IF c = "keep" THEN e ELSE c

\* The first step of util_write_pid_file that fails, or "ok".
Stages == {"ok", "open", "write", "flush", "lock", "atexit"}

\* What the file holds once the pid is written and flushed.
PidLine(self) == IF self = 1 THEN "1\n" ELSE "2\n"

\* unlink(path).
unlink(fsys, path) == [fsys EXCEPT ![path] = ABSENT]

\* fopen(path, "w") that succeeds: the file exists and is empty.
fopen_w(fsys, path) == [fsys EXCEPT ![path] = ""]

\* xfree(pidfile_path); pidfile_path = xstrdup(path); and the fclose of the
\* stream of an earlier call.
Replace(g, path, env) ==
    [g EXCEPT !.path = path,
              !.nopen = IF g.file # NULL THEN @ - 1 ELSE @]

\* fopen failed: pidfile_file is NULL and errno is fopen's; save_errno =
\* errno; xfree(pidfile_path); pidfile_path = NULL; return (-1).  save_errno
\* is not written back.
OpenFailed(g, env) ==
    [g EXCEPT !.file = NULL,
              !.path = NULL,
              !.errno = Clobber(env.err, env.e_free)]

\* fopen succeeded.
Opened(g, path) == [g EXCEPT !.file = path, !.nopen = @ + 1]

\* if (0 == pidfile_numlocks) { pidfile_pid = pid; atexit(...);
\* pidfile_numlocks++; } with atexit succeeding.
Register(g, self) ==
    IF g.numlocks = 0
    THEN [g EXCEPT !.pid = getpid(self), !.hooks = TRUE, !.numlocks = @ + 1]
    ELSE g

\* The same with atexit failing: the pid is recorded, then goto error.
RegisterFailed(g, self, env) ==
    [g EXCEPT !.pid = getpid(self), !.errno = env.err]

\* A rollback that leaves the path recorded.
RollbackKeepsPath(g, env) ==
    [g EXCEPT !.file = NULL, !.nopen = @ - 1, !.pid = 0]

\* The error label: save_errno = errno; unlink; xfree; pidfile_path = NULL;
\* fclose; pidfile_file = NULL; pidfile_pid = 0; errno = save_errno.
Rollback(g, env) ==
    LET save_errno == g.errno
        clobbered == Clobber(g.errno, env.e_free)
    IN  [g EXCEPT !.path = NULL,
                  !.file = NULL,
                  !.nopen = @ - 1,
                  !.pid = 0,
                  !.errno = IF clobbered = save_errno THEN clobbered
                            ELSE save_errno]

\* util_write_pid_file(path) for a non-null path in process self, with the
\* outcomes env of the calls it makes: the globals, the file system and the
\* return value it leaves, and the errno the failing call had set.
util_write_pid_file(g, fsys, self, path, env) ==
    LET g1 == Replace(g, path, env)
    IN  IF env.stage = "open"
        THEN [g |-> OpenFailed(g1, env), fs |-> fsys, ret |-> -1,
              err |-> env.err]
        ELSE
          LET g2 == Opened(g1, path)
              fs2 == fopen_w(fsys, path)
              written == [fs2 EXCEPT ![path] = PidLine(getpid(self))]
          IN  IF env.stage \in {"write", "flush", "lock"}
              THEN LET gf == [g2 EXCEPT !.errno = env.err]
                       fsf == IF env.stage = "lock" THEN written ELSE fs2
                   IN  [g |-> Rollback(gf, env), fs |-> unlink(fsf, gf.path),
                        ret |-> -1, err |-> env.err]
              ELSE IF env.stage = "atexit" /\ g2.numlocks = 0
              THEN LET gf == RegisterFailed(g2, self, env)
                   IN  [g |-> Rollback(gf, env),
                        fs |-> unlink(written, gf.path),
                        ret |-> -1, err |-> env.err]
              ELSE [g |-> Register(g2, self), fs |-> written, ret |-> 0,
                    err |-> "0"]

\* The test of the exit hook without the pid comparison.
CleanupGuardAnyPid(g, self) == NULL # g.path

\* NULL != pidfile_path && getpid() == pidfile_pid.
CleanupGuard(g, self) == NULL # g.path /\ getpid(self) = g.pid

\* _cleanup_pidfile in process self: what it leaves of the globals and of the
\* file system.
cleanup_pidfile(g, fsys, self) ==
    IF CleanupGuard(g, self)
    THEN [g |-> [g EXCEPT !.nopen = @ - 1], fs |-> unlink(fsys, g.path),
          unlinked |-> {g.path}]
    ELSE [g |-> g, fs |-> fsys, unlinked |-> {}]

\* The assignment of process self's globals.
SetGlobals(self, g) ==
    /\ pidfile_path' = [pidfile_path EXCEPT ![self] = g.path]
    /\ pidfile_file' = [pidfile_file EXCEPT ![self] = g.file]
    /\ pidfile_pid' = [pidfile_pid EXCEPT ![self] = g.pid]
    /\ pidfile_numlocks' = [pidfile_numlocks EXCEPT ![self] = g.numlocks]
    /\ hooks' = [hooks EXCEPT ![self] = g.hooks]
    /\ errno' = [errno EXCEPT ![self] = g.errno]
    /\ nopen' = [nopen EXCEPT ![self] = g.nopen]

\* A call of util_write_pid_file with a path.
WritePidFile ==
    /\ \E self \in Procs, path \in Paths, stage \in Stages, err \in LibErr,
          e_free \in Clob :
         LET env == [stage |-> stage, err |-> err, e_free |-> e_free]
             r == util_write_pid_file(Globals(self), fs, self, path, env)
         IN  /\ alive[self] = "running"
             /\ stage = "atexit" => pidfile_numlocks[self] = 0
             /\ SetGlobals(self, r.g)
             /\ fs' = r.fs
             /\ last' = [last EXCEPT ![self] = [ret |-> r.ret, path |-> path]]
             /\ returned' = [proc |-> self, ret |-> r.ret, path |-> path,
                             stage |-> stage, err |-> r.err]
    /\ UNCHANGED <<alive, removed>>
    /\ UNCHANGED <<convVars, strVars, urlVars>>

\* A call of util_write_pid_file(NULL): return (0), and nothing changes.
WritePidNull ==
    /\ \E self \in Procs : alive[self] = "running"
    /\ UNCHANGED <<pidVars, convVars, strVars, urlVars>>

\* The normal exit of a process: exit() runs the hook, if it is registered.
Exit ==
    /\ \E self \in Procs :
         LET r == IF hooks[self]
                  THEN cleanup_pidfile(Globals(self), fs, self)
                  ELSE [g |-> Globals(self), fs |-> fs, unlinked |-> {}]
         IN  /\ alive[self] = "running"
             /\ alive' = [alive EXCEPT ![self] = "exited"]
             /\ SetGlobals(self, r.g)
             /\ fs' = r.fs
             /\ removed' = [removed EXCEPT ![self] = @ \cup r.unlinked]
    /\ returned' = NoCall
    /\ UNCHANGED last
    /\ UNCHANGED <<convVars, strVars, urlVars>>

\* fork() in the first process: the child starts with a copy of the globals,
\* of the registered hook and of the open stream.
Fork ==
    /\ alive[1] = "running"
    /\ alive[2] = "unborn"
    /\ alive' = [alive EXCEPT ![2] = "running"]
    /\ SetGlobals(2, Globals(1))
    /\ returned' = NoCall
    /\ UNCHANGED <<fs, last, removed>>
    /\ UNCHANGED <<convVars, strVars, urlVars>>

\* ------------------------------------------------------ util_shellquote

SQUOTE == "'"
BSLASH == "\\"

\* The bytes of an argument: the two the function escapes and one it copies.
QuoteBytes == {SQUOTE, BSLASH, "x"}
QuoteInputs == UNION {[1..n -> QuoteBytes] : n \in 0..MaxQuoteLen}

NoQuote == [called |-> FALSE, in |-> <<>>, out |-> <<>>, out_p |-> 0,
            out_len |-> 0, in_p |-> 0, over |-> FALSE]

\* *out_p++ = v: the store lands in out when out_p is inside the allocation.
Store(st, v) ==
    [st EXCEPT !.out = IF st.out_p < Len(st.out)
                       THEN [@ EXCEPT ![st.out_p + 1] = v] ELSE @,
               !.over = st.over \/ st.out_p >= Len(st.out),
               !.out_p = st.out_p + 1]

\* The case labels of the switch, with the backslash left out.
NeedsEscapeQuoteOnly(c) == c = SQUOTE

\* The case labels of the switch: '\'' and '\\'.
NeedsEscape(c) == c \in {SQUOTE, BSLASH}

\* The while test that stops only when the budget is used up.
QuoteGoesOnToZero(in, st) == st.in_p < Len(in) /\ st.out_len > 0

\* The while test: *in_p && out_len > 2.
QuoteGoesOn(in, st) == st.in_p < Len(in) /\ st.out_len > 2

\* The while loop of util_shellquote.
RECURSIVE QuoteLoop(_, _)
QuoteLoop(in, st) ==
    IF ~QuoteGoesOn(in, st) THEN st
    ELSE LET c == in[st.in_p + 1]
             s1 == IF NeedsEscape(c)
                   THEN [Store(st, BSLASH) EXCEPT !.out_len = Wrap(@ - 1)]
                   ELSE st
             s2 == [Store(s1, c) EXCEPT !.in_p = @ + 1,
                                        !.out_len = Wrap(@ - 1)]
         IN  QuoteLoop(in, s2)

\* out_len = min(strlen(in), SHELLQUOTE_INLEN_MAX) * 2 + 2.
OutLen(in) ==
    Wrap((IF Len(in) > SHELLQUOTE_INLEN_MAX
          THEN SHELLQUOTE_INLEN_MAX ELSE Len(in)) * 2 + 2)

\* util_shellquote(in): the buffer it returns, with the final values of its
\* locals.
util_shellquote(in) ==
    LET st0 == [called |-> TRUE, in |-> in,
                out |-> xcalloc(Wrap(OutLen(in) + 1)), out_p |-> 0,
                out_len |-> OutLen(in), in_p |-> 0, over |-> FALSE]
        st1 == [Store(st0, SQUOTE) EXCEPT !.out_len = Wrap(@ - 1)]
    IN  Store(QuoteLoop(in, st1), SQUOTE)

\* A call of util_shellquote.
ShellQuote ==
    /\ ~quoted.called /\ ~replaced.called
    /\ \E in \in QuoteInputs : quoted' = util_shellquote(in)
    /\ UNCHANGED <<replaced, convVars, pidVars, urlVars>>

\* --------------------------------------------------- util_replacestring

\* The bytes of a source and of a needle.
ReplBytes == {"x", "y"}
Sources == UNION {[1..n -> ReplBytes] : n \in 0..MaxLen}
Needles == UNION {[1..n -> ReplBytes] : n \in 0..MaxFromLen}
Replacements == UNION {[1..n -> QuoteBytes] : n \in 0..MaxToLen}

NOTFOUND == -1

NoReplace == [called |-> FALSE, source |-> <<>>, from |-> <<>>, to |-> <<>>,
              dest |-> <<>>]

\* The first n bytes of s, or all of s when it is shorter.
Take(s, n) == SubSeq(s, 1, IF n < Len(s) THEN n ELSE Len(s))

\* The stores of bytes into mem from index k (from 0) on.
RECURSIVE MemPut(_, _, _)
MemPut(mem, k, bytes) ==
    IF bytes = <<>> THEN mem
    ELSE MemPut(IF k < Len(mem) THEN [mem EXCEPT ![k + 1] = Head(bytes)]
                ELSE mem, k + 1, Tail(bytes))

\* A search that returns the last occurrence.
RECURSIVE strstr_last(_, _, _)
strstr_last(hay, needle, i) ==
    IF i + Len(needle) > Len(hay) THEN NOTFOUND
    ELSE LET later == strstr_last(hay, needle, i + 1)
         IN  IF later # NOTFOUND THEN later
             ELSE IF SubSeq(hay, i + 1, i + Len(needle)) = needle THEN i
             ELSE NOTFOUND

\* strstr(hay + i, needle): the offset in hay of the first occurrence of
\* needle at or after i, or NOTFOUND for a null result.
RECURSIVE strstr(_, _, _)
strstr(hay, needle, i) ==
    IF i + Len(needle) > Len(hay) THEN NOTFOUND
    ELSE IF SubSeq(hay, i + 1, i + Len(needle)) = needle THEN i
    ELSE strstr(hay, needle, i + 1)

\* strncat(dest, src, n): at most n bytes of src and a NUL, put at the end
\* of the string in dest.
strncat(dest, src, n) ==
    MemPut(dest, Len(CStr(dest)), Take(src, n) \o <<NUL>>)

\* strlcat(dest, src, size): as many bytes of src as leave room for the NUL
\* in size bytes.
strlcat(dest, src, size) ==
    LET dlen == Len(CStr(dest))
    IN  IF dlen >= size THEN dest
        ELSE MemPut(dest, dlen, Take(src, size - dlen - 1) \o <<NUL>>)

\* util_replacestring(source, from, to): the string it returns.
util_replacestring(source, from, to) ==
    LET to_quoted == CStr(util_shellquote(to).out)
        dest_size == Wrap(Len(source) + Len(to_quoted) + 1)
        dest == xcalloc(dest_size)
        p2 == strstr(source, from, 0)
        d1 == IF p2 # NOTFOUND
              THEN strlcat(strncat(dest, source, p2), to_quoted, dest_size)
              ELSE dest
        p1 == IF p2 # NOTFOUND THEN p2 + Len(from) ELSE 0
    IN  CStr(strlcat(d1, SubSeq(source, p1 + 1, Len(source)), dest_size))

\* A call of util_replacestring.
ReplaceString ==
    /\ ~quoted.called /\ ~replaced.called
    /\ \E source \in Sources, from \in Needles, to \in Replacements :
         replaced' = [called |-> TRUE, source |-> source, from |-> from,
                      to |-> to,
                      dest |-> util_replacestring(source, from, to)]
    /\ UNCHANGED <<quoted, convVars, pidVars, urlVars>>

\* --------------------------------------------------------- util_urlparse

\* "http://"
HTTP == <<"h", "t", "t", "p", ":", "/", "/">>

\* sizeof(tmpPort) and USHRT_MAX.
TmpPortSize == 6
USHRT_MAX == 65535

\* The arguments: a scheme, a host, a colon, a port text and a mount, each of
\* which may be missing or malformed.
Schemes == {HTTP, <<"h", "t", "t", "p", ":", "/">>,
            <<"h", "t", "t", "p", "s", ":", "/", "/">>, <<>>}
Hosts == {<<>>, <<"h">>, <<"h", ".", "e">>, <<"h", "/", "a">>}
Colons == {<<>>, <<":">>}
PortTexts == {<<>>, <<"0">>, <<"1">>, <<"8", "0">>, <<"8", "0", "0", "0">>,
              <<"6", "5", "5", "3", "5">>, <<"6", "5", "5", "3", "6">>,
              <<"9", "9", "9", "9", "9">>, <<"1", "0", "0", "0", "0", "0">>,
              <<"+", "8">>, <<"-", "1">>, <<" ", "8">>, <<"8", "a">>,
              <<"8", " ">>, <<"0", "0", "0", "0", "1">>}
Mounts == {<<>>, <<"/">>, <<"/", "m">>, <<"m">>, <<"/", "m", ":", "/">>}
Urls == {sc \o h \o c \o pt \o m :
           sc \in Schemes, h \in Hosts, c \in Colons, pt \in PortTexts,
           m \in Mounts}

\* The values the caller's port may hold before a call.
PriorPorts == {0, 8000}

NoParse == [called |-> FALSE, ret |-> 0, log |-> "none"]

\* No call of util_urlparse has been made; the caller's pointers are null.
UrlInit ==
    /\ url = <<>>
    /\ hostname = 0
    /\ port = 0
    /\ mountname = 0
    /\ heap = <<>>
    /\ urlparse_ret = NoParse

\* strchr(s + from, c): the offset in s of the first c at or after from, or
\* NOTFOUND for a null result.
RECURSIVE strchr(_, _, _)
strchr(str, from, c) ==
    IF from >= Len(str) THEN NOTFOUND
    ELSE IF str[from + 1] = c THEN from
    ELSE strchr(str, from + 1, c)

\* A copy that fills all size bytes with bytes of src.
strlcpy_full(src, size) == Take(src, size)

\* strlcpy(dst, src, size) into a block of size bytes: size - 1 bytes of src
\* at most, and the NUL.
strlcpy(src, size) == Take(src, size - 1)

DigitVal == [c \in {"0", "1", "2", "3", "4", "5", "6", "7", "8", "9"} |->
               CASE c = "0" -> 0 [] c = "1" -> 1 [] c = "2" -> 2
                 [] c = "3" -> 3 [] c = "4" -> 4 [] c = "5" -> 5
                 [] c = "6" -> 6 [] c = "7" -> 7 [] c = "8" -> 8
                 [] c = "9" -> 9]

\* The value of a run of decimal digits, left to right; -1 when a byte of
\* it is no digit or the run is empty.
RECURSIVE Digits(_, _)
Digits(str, acc) ==
    IF str = <<>> THEN acc
    ELSE IF Head(str) \notin DOMAIN DigitVal THEN -1
    ELSE Digits(Tail(str), acc * 10 + DigitVal[Head(str)])

\* strtoll(str, &ep, 10) as strtonum uses it: white space is skipped, one
\* sign is taken, and the digits must reach the end of the string.
RECURSIVE strtoll(_)
strtoll(str) ==
    IF str # <<>> /\ Head(str) = " " THEN strtoll(Tail(str))
    ELSE LET signed == str # <<>> /\ Head(str) \in {"+", "-"}
             digits == IF signed THEN Tail(str) ELSE str
             v == IF digits = <<>> THEN -1 ELSE Digits(digits, 0)
         IN  IF v = -1 THEN [ok |-> FALSE, val |-> 0]
             ELSE [ok |-> TRUE,
                   val |-> IF signed /\ Head(str) = "-" THEN 0 - v ELSE v]

\* A strtonum that takes every number.
strtonum_unchecked(str, minval, maxval) ==
    LET r == strtoll(str)
    IN  IF ~r.ok THEN [val |-> 0, errstr |-> "invalid"]
        ELSE [val |-> r.val % (USHRT_MAX + 1), errstr |-> "none"]

\* strtonum(str, minval, maxval, &errstr): the number, or 0 and a word.
strtonum(str, minval, maxval) ==
    LET r == strtoll(str)
    IN  IF ~r.ok THEN [val |-> 0, errstr |-> "invalid"]
        ELSE IF r.val < minval THEN [val |-> 0, errstr |-> "too small"]
        ELSE IF r.val > maxval THEN [val |-> 0, errstr |-> "too large"]
        ELSE [val |-> r.val, errstr |-> "none"]

\* xmalloc and a copy into the new block; xfree.
xmalloc(hp, bytes) == Append(hp, [bytes |-> bytes, live |-> TRUE])
xfree(hp, ptr) == [hp EXCEPT ![ptr] = [@ EXCEPT !.live = FALSE]]

\* The return of 0 after log_error(msg), with what the outputs hold then.
UrlFail(msg, hn, pt, mn, hp) ==
    [ret |-> 0, log |-> msg, hostname |-> hn, port |-> pt, mountname |-> mn,
     heap |-> hp]

\* util_urlparse(url, &hostname, &port, &mountname), the outputs holding hn,
\* pt and mn at the call.
util_urlparse(u, hn, pt, mn, hp) ==
    IF Take(u, Len(HTTP)) # HTTP
    THEN UrlFail("not an HTTP address", hn, pt, mn, hp)
    ELSE
    LET p1 == Len(HTTP)
        p2 == strchr(u, p1, ":")
    IN  IF p2 = NOTFOUND THEN UrlFail("missing port", hn, pt, mn, hp)
        ELSE
        LET hostsiz == (p2 - p1) + 1
        IN  IF hostsiz <= 1 THEN UrlFail("missing host", hn, pt, mn, hp)
            ELSE
            LET hp1 == xmalloc(hp, strlcpy(SubSeq(u, p1 + 1, Len(u)),
                                           hostsiz))
                hn1 == Len(hp1)
                q2 == p2 + 1
                p3 == strchr(u, q2, "/")
            IN  IF p3 = NOTFOUND \/ p3 - q2 >= TmpPortSize
                THEN UrlFail("mountpoint missing, or port number too long",
                             hn1, pt, mn, xfree(hp1, hn1))
                ELSE
                LET tmpPort == strlcpy(SubSeq(u, q2 + 1, Len(u)),
                                       (p3 - q2) + 1)
                    n == strtonum(tmpPort, 1, USHRT_MAX)
                    pt1 == n.val % (USHRT_MAX + 1)
                IN  IF n.errstr # "none"
                    THEN UrlFail("port", hn1, pt1, mn, xfree(hp1, hn1))
                    ELSE
                    LET mountsiz == Len(u) - p3 + 1
                        hp2 == xmalloc(hp1, strlcpy(SubSeq(u, p3 + 1,
                                                    Len(u)), mountsiz))
                    IN  [ret |-> 1, log |-> "none", hostname |-> hn1,
                         port |-> pt1, mountname |-> Len(hp2),
                         heap |-> hp2]

\* A call of util_urlparse on the caller's three variables.
UrlParse ==
    /\ ~urlparse_ret.called
    /\ \E u \in Urls :
         LET r == util_urlparse(u, hostname, port, mountname, heap)
         IN  /\ url' = u
             /\ hostname' = r.hostname
             /\ port' = r.port
             /\ mountname' = r.mountname
             /\ heap' = r.heap
             /\ urlparse_ret' = [called |-> TRUE, ret |-> r.ret,
                                 log |-> r.log]
    /\ UNCHANGED <<convVars, pidVars, strVars>>

\* The caller is done with the result: it lets go of what it was given and
\* sets up its variables for another call.
UrlDone ==
    /\ urlparse_ret.called
    /\ url' = <<>>
    /\ hostname' = 0
    /\ mountname' = 0
    /\ \E pt \in PriorPorts : port' = pt
    /\ heap' = <<>>
    /\ urlparse_ret' = NoParse
    /\ UNCHANGED <<convVars, pidVars, strVars>>

NextUrl == UrlParse \/ UrlDone

NextConv == Enter \/ Round \/ ReadPastEnd \/ Finish \/ Return

NextPid == WritePidFile \/ WritePidNull \/ Exit \/ Fork

\* The caller is done with the string it was given.
StrDone ==
    /\ quoted.called \/ replaced.called
    /\ quoted' = NoQuote
    /\ replaced' = NoReplace
    /\ UNCHANGED <<convVars, pidVars, urlVars>>

NextStr == ShellQuote \/ ReplaceString \/ StrDone

\* No call of the string helpers has been made.
StrInit ==
    /\ quoted = NoQuote
    /\ replaced = NoReplace

Init == ConvInit /\ PidInit /\ StrInit /\ UrlInit

SpecConv == Init /\ [][NextConv]_vars

SpecPid == Init /\ [][NextPid]_vars

SpecStr == Init /\ [][NextStr]_vars

SpecUrl == Init /\ [][NextUrl]_vars

\* -------------------------------------------------- the transcoder's claims

\* C1: every iteration of the conversion loop moves the input cursor forward
\* and strictly decreases the count of unconsumed input bytes, whether iconv
\* ended the round in success, in E2BIG or in another error; so the loop ends
\* within as many iterations as the input has bytes and the call returns.
C1_LoopProgress ==
    /\ [][rounds' = rounds + 1 =>
            /\ input_len' < input_len
            /\ ip' > ip
            /\ ip' + input_len' = Len(in_str)]_vars
    /\ [](pc # "fault")
    /\ [](pc \in {"loop", "done"} /\ cd # 0 =>
            rounds + input_len <= Len(in_str))

\* C2: the converter is asked for (source -> qualified target), then
\* (source -> native), then (native -> qualified target), each only when the
\* ones before it failed; when all three fail the call returns the input and
\* runs no round.
C2_OpenFallback ==
    (pc \in {"loop", "done"} /\ in_str # NULLPTR) =>
        LET suffix == CASE mode = "ICONV_TRANSLIT" -> "//TRANSLIT"
                        [] mode = "ICONV_IGNORE" -> "//IGNORE"
                        [] mode = "ICONV_REPLACE" -> ""
            target == <<ToOf(caller), suffix>>
            source == <<FromOf(caller), "">>
            native == <<"", "">>
            order == << <<target, source>>, <<native, source>>,
                        <<target, native>> >>
            n == Len(opens)
        IN  /\ n \in 1..3
            /\ \A i \in 1..n : opens[i] = order[i]
            /\ \A i \in 1..(n - 1) : opens[i] \notin supported
            /\ (cd # 0) <=> (opens[n] \in supported)
            /\ cd = 0 =>
                 /\ n = 3
                 /\ pc = "done"
                 /\ ret = in_str
                 /\ rounds = 0

\* All three iconv_open calls failed on a non-empty input.
C2_Witness ==
    /\ pc = "done"
    /\ in_str # NULLPTR
    /\ Len(in_str) > 0
    /\ Len(opens) = 3
    /\ cd = 0

\* C3: a null or empty input returns the empty string, in every mode,
\* whatever iconv_open and iconv_close report.
C3_EmptyResult ==
    (pc = "done" /\ (in_str = NULLPTR \/ in_str = <<>>)) => ret = <<>>

\* The empty input was given a handle whose close failed.
C3_Witness ==
    /\ pc = "done"
    /\ in_str = <<>>
    /\ cd # 0
    /\ close_rc = "fail"

\* C4 as stated: under ICONV_TRANSLIT and ICONV_IGNORE the loop writes no
\* placeholder.
C4_OnlyInReplaceMode ==
    mode \in {"ICONV_TRANSLIT", "ICONV_IGNORE"} => qmarks = 0

\* C4 as amended: in every mode the loop writes one placeholder in exactly
\* the rounds that iconv ended in an error other than E2BIG.
C4_PlaceholderIffError ==
    [][rounds' = rounds + 1 =>
         /\ mode' \in Modes
         /\ IF lastRound'.err \in {"EILSEQ", "EINVAL"}
            THEN qmarks' = qmarks + 1
            ELSE lastRound'.err \in {"OK", "E2BIG"} /\ qmarks' = qmarks]_vars

\* A placeholder written under ICONV_TRANSLIT through the handle of the first
\* attempt, after a round that ended in E2BIG and wrote none.
C4_Witness ==
    /\ mode = "ICONV_TRANSLIT"
    /\ Len(opens) = 1
    /\ "E2BIG" \in seen
    /\ qmarks > 0

\* C5: when iconv_close fails the call returns a copy of the input, not the
\* accumulated output.
C5_CloseFailure ==
    (pc = "done" /\ close_rc = "fail") => ret = in_str

\* The close failed after rounds that converted bytes and wrote a
\* placeholder.
C5_Witness ==
    /\ pc = "done"
    /\ close_rc = "fail"
    /\ rounds >= 2
    /\ qmarks > 0
    /\ CStr(output) # in_str

\* C6: a call opens at most one handle, works on its own open handle only,
\* and has called iconv_close on it exactly once when it returns; no handle
\* outlives the call that opened it.
C6_HandleLifetime ==
    /\ Len(SelectSeq(handles, LAMBDA h : ~h.stale)) <= 1
    /\ pc = "loop" =>
         /\ cd \in 1..Len(handles)
         /\ ~handles[cd].stale
         /\ handles[cd].closes = 0
    /\ pc = "done" => \A i \in 1..Len(handles) : handles[i].closes = 1
    /\ pc = "done" => (cd # 0 <=> Len(handles) = 1)
    /\ pc = "idle" => handles = <<>>

\* A call that ran rounds on its handle has returned, the handle closed.
C6_Witness ==
    /\ pc = "done"
    /\ cd # 0
    /\ rounds > 0
    /\ handles[cd].closes = 1

\* C17: a round that iconv ends with an error other than E2BIG appends the
\* bytes iconv produced and then exactly one '?', and leaves the cursor one
\* byte beyond what iconv consumed; a round that ends with E2BIG appends
\* iconv's bytes only and skips nothing.
C17_RoundContribution ==
    [][rounds' = rounds + 1 =>
        LET r == lastRound'
            added == SubSeq(output', out_pos + 1, out_pos')
        IN  /\ r.err \notin {"OK", "E2BIG"} =>
                /\ added = r.out \o <<QMARK>>
                /\ ip' = ip + r.consumed + 1
            /\ r.err = "E2BIG" =>
                /\ added = r.out
                /\ ip' = ip + r.consumed]_vars

\* A call in which a round ended with E2BIG and the last one with EILSEQ
\* after iconv had produced bytes.
C17_Witness ==
    /\ pc = "loop"
    /\ "E2BIG" \in seen
    /\ lastRound.err = "EILSEQ"
    /\ lastRound.out # <<>>

\* C18: between the iterations of the loop and at the return, the
\* accumulator ends with a NUL at its content length, its size is that
\* length + 1 (1 at the start), and its content is the bytes of all rounds
\* so far, placeholders included, in the order of the rounds.
C18_Accumulator ==
    /\ (pc \in {"loop", "done"} /\ cd # 0) =>
          /\ Len(output) = output_size
          /\ output_size = out_pos + 1
          /\ output[out_pos + 1] = NUL
          /\ SubSeq(output, 1, out_pos) = produced
          /\ rounds = 0 => output_size = 1
    /\ (pc = "done" /\ close_rc = "ok") => ret = produced

\* A call that has returned the bytes of three rounds, one of them with a
\* placeholder.
C18_Witness ==
    /\ pc = "done"
    /\ close_rc = "ok"
    /\ rounds = 3
    /\ qmarks = 1
    /\ Len(ret) > 3

\* C20: every store of a round into buf (iconv's bytes, the '?', the
\* terminating NUL) is at an index below sizeof(buf), and bufavail never
\* goes below zero, also when iconv fills all of the room and then reports
\* invalid input.
C20_ChunkStoresInBounds ==
    /\ ~overrun
    /\ bufavail <= BUFSIZ - 1

\* ------------------------------------------------- the pid-file's claims

\* C7: when the last call with a path that the first process made succeeded
\* for path Q, its normal exit removes the file at Q and no other file.
C7_ExitRemovesOwned ==
    [][(/\ alive[1] = "running"
        /\ alive'[1] = "exited"
        /\ last[1].path # NULL
        /\ last[1].ret = 0) =>
          /\ fs'[last[1].path] = ABSENT
          /\ removed'[1] \subseteq {last[1].path}
          /\ \A f \in Paths \ {last[1].path} : fs'[f] = fs[f]]_vars

\* C8: the exit hook run in a process whose id is not the recorded one
\* unlinks nothing and closes nothing.
C8_ForeignExitInert ==
    [][\A p \in Procs :
         (/\ alive[p] = "running"
          /\ alive'[p] = "exited"
          /\ getpid(p) # pidfile_pid[p]) =>
            /\ fs' = fs
            /\ removed' = removed
            /\ nopen'[p] = nopen[p]]_vars

\* The child has exited with the hook registered and the parent's path and
\* pid inherited, and the parent's file is still there.
C8_Witness ==
    /\ alive[1] = "running"
    /\ alive[2] = "exited"
    /\ hooks[2]
    /\ pidfile_path[2] # NULL
    /\ pidfile_pid[2] = 1
    /\ fs[pidfile_path[2]] = PidLine(1)

\* C9: when a call with a path has failed, on return the path record is
\* cleared, the process holds no open pid-file stream, the file at the path
\* is gone if the call had opened it, and an exit of the process after it
\* removes nothing.
C9_FailureRollsBack ==
    /\ [](\A p \in Procs :
            (returned.proc = p /\ returned.ret = -1) =>
              /\ pidfile_path[p] = NULL
              /\ pidfile_file[p] = NULL
              /\ nopen[p] = 0
              /\ returned.stage # "open" => fs[returned.path] = ABSENT)
    /\ [][\A p \in Procs :
            (/\ last[p].ret = -1
             /\ alive[p] = "running"
             /\ alive'[p] = "exited") =>
               /\ fs' = fs
               /\ removed' = removed]_vars

\* A process whose hook was registered by an earlier success has exited
\* after a failed call, and has removed nothing.
C9_Witness ==
    /\ alive[1] = "exited"
    /\ hooks[1]
    /\ last[1].ret = -1
    /\ removed[1] = {}
    /\ \E f \in Paths : fs[f] # ABSENT

\* C10: when a call has failed, errno on return is the code the failing
\* step had set.
C10_ErrnoPreserved ==
    \A p \in Procs :
        (returned.proc = p /\ returned.ret = -1) => errno[p] = returned.err

\* ---------------------------------------------- the string helpers' claims

\* What a quoted string encodes: the bytes between its first and its last
\* byte, every backslash taken as the escape of the byte after it.
RECURSIVE Unescape(_)
Unescape(body) ==
    IF body = <<>> THEN <<>>
    ELSE IF Head(body) = BSLASH /\ Len(body) >= 2
    THEN <<body[2]>> \o Unescape(Tail(Tail(body)))
    ELSE <<Head(body)>> \o Unescape(Tail(body))

Body(str) == SubSeq(str, 2, Len(str) - 1)

InLenCap(in) ==
    IF Len(in) > SHELLQUOTE_INLEN_MAX THEN SHELLQUOTE_INLEN_MAX ELSE Len(in)

\* C11: the output of util_shellquote encodes exactly the first
\* min(strlen(in), SHELLQUOTE_INLEN_MAX) bytes of its argument: a short
\* argument is encoded whole, and no byte beyond the cap reaches the output.
C11_EncodesCappedPrefix ==
    quoted.called =>
        Unescape(Body(CStr(quoted.out))) = Take(quoted.in, InLenCap(quoted.in))

\* A body in which every quote and every backslash is the second byte of a
\* pair that a backslash opens.
RECURSIVE WellEscaped(_)
WellEscaped(body) ==
    IF body = <<>> THEN TRUE
    ELSE IF Head(body) = BSLASH
    THEN /\ Len(body) >= 2
         /\ body[2] \in {SQUOTE, BSLASH}
         /\ WellEscaped(Tail(Tail(body)))
    ELSE /\ Head(body) # SQUOTE
         /\ WellEscaped(Tail(body))

\* C12: the output of util_shellquote begins and ends with a single quote,
\* and between them every quote or backslash of the argument follows one
\* inserted backslash; a cut-off argument never leaves an inserted backslash
\* alone before the closing quote.
C12_QuotedAndEscaped ==
    quoted.called =>
        LET str == CStr(quoted.out)
        IN  /\ Len(str) >= 2
            /\ str[1] = SQUOTE
            /\ str[Len(str)] = SQUOTE
            /\ WellEscaped(Body(str))
            /\ Unescape(Body(str)) = Take(quoted.in, quoted.in_p)

\* An argument that was cut off right after an escaped byte.
C12_Witness ==
    /\ quoted.called
    /\ 0 < quoted.in_p
    /\ quoted.in_p < Len(quoted.in)
    /\ quoted.in[quoted.in_p] \in {SQUOTE, BSLASH}
    /\ quoted.in[quoted.in_p + 1] \in {SQUOTE, BSLASH}

\* C13: util_replacestring returns source with its leftmost occurrence of
\* from replaced by util_shellquote(to), the text around it unchanged; it
\* returns source when from does not occur.
C13_ReplacesLeftmost ==
    replaced.called =>
        LET src == replaced.source
            from == replaced.from
            At(i) == SubSeq(src, i + 1, i + Len(from)) = from
            Occ == {i \in 0..(Len(src) - Len(from)) : At(i)}
            q == CStr(util_shellquote(replaced.to).out)
        IN  IF Occ = {} THEN replaced.dest = src
            ELSE LET i == CHOOSE k \in Occ : \A j \in Occ : k <= j
                 IN  replaced.dest =
                         SubSeq(src, 1, i) \o q
                         \o SubSeq(src, i + Len(from) + 1, Len(src))

\* A source in which the needle occurs twice, after a first byte that is
\* not part of it, with a replacement that needs escaping.
C13_Witness ==
    /\ replaced.called
    /\ replaced.from = <<"x">>
    /\ replaced.source = <<"y", "x", "y", "x">>
    /\ replaced.dest # replaced.source
    /\ SQUOTE \in {replaced.to[i] : i \in 1..Len(replaced.to)}

\* C19: util_shellquote stores at most min(strlen(in), SHELLQUOTE_INLEN_MAX)
\* * 2 + 3 bytes, the terminator counted, and every store is inside the
\* buffer it allocated.
C19_StoresInBounds ==
    quoted.called =>
        /\ ~quoted.over
        /\ quoted.out_p + 1 <= InLenCap(quoted.in) * 2 + 3
        /\ quoted.out_p < Len(quoted.out)
        /\ quoted.out[quoted.out_p + 1] = NUL

\* An argument longer than the cap, made of quotes and backslashes only.
C19_Witness ==
    /\ quoted.called
    /\ Len(quoted.in) > SHELLQUOTE_INLEN_MAX
    /\ \A i \in 1..Len(quoted.in) : quoted.in[i] \in {SQUOTE, BSLASH}
    /\ quoted.out_p + 1 = SHELLQUOTE_INLEN_MAX * 2 + 3

\* ------------------------------------------------ the URL parser's claims

\* The failure kind a logged message stands for.
KindOf(r) ==
    CASE r.ret = 1 -> "Success"
      [] r.log = "not an HTTP address" -> "InvalidScheme"
      [] r.log = "missing port" -> "MissingPort"
      [] r.log = "missing host" -> "MissingHost"
      [] r.log = "mountpoint missing, or port number too long" ->
             "MalformedMount"
      [] r.log = "port" -> "InvalidPort"

\* The places of byte c in str, counted from 1.
Places(str, c) == {i \in 1..Len(str) : str[i] = c}
First(S) == CHOOSE i \in S : \A j \in S : i <= j

\* A port text that is an integer in [1, 65535].
IsPort(text) ==
    LET r == strtoll(text) IN r.ok /\ r.val >= 1 /\ r.val <= 65535

\* The first check of the list that a URL violates.
FirstViolated(u) ==
    IF Len(u) < 7 \/ SubSeq(u, 1, 7) # HTTP THEN "InvalidScheme"
    ELSE
    LET rest == SubSeq(u, 8, Len(u))
    IN  IF Places(rest, ":") = {} THEN "MissingPort"
        ELSE
        LET c == First(Places(rest, ":"))
            after == SubSeq(rest, c + 1, Len(rest))
        IN  IF c = 1 THEN "MissingHost"
            ELSE IF Places(after, "/") = {} THEN "MalformedMount"
            ELSE IF First(Places(after, "/")) - 1 > 5 THEN "MalformedMount"
            ELSE IF ~IsPort(SubSeq(after, 1, First(Places(after, "/")) - 1))
            THEN "InvalidPort"
            ELSE "Success"

\* C14: util_urlparse fails with the error of the first violated check, in
\* the order scheme, port separator, host, mount or port length, port
\* number, and succeeds exactly when no check is violated.
C14_FirstViolatedCheck ==
    urlparse_ret.called => KindOf(urlparse_ret) = FirstViolated(url)

\* A URL that has an empty host and no mount either: the host is reported.
C14_Witness ==
    /\ urlparse_ret.called
    /\ urlparse_ret.log = "missing host"
    /\ Places(SubSeq(url, 8, Len(url)), "/") = {}

\* C15: for a URL "http://" host ":" port mount with a non-empty host free
\* of ':', a port of 1 to 5 bytes free of '/' that is an integer in
\* [1, 65535] and a mount that begins with '/', util_urlparse returns 1 and
\* hands out host, the value of port and the whole mount.
C15_WellFormedParses ==
    urlparse_ret.called =>
        \A h \in 1..Len(url), p \in 1..5 :
            LET host == SubSeq(url, 8, 7 + h)
                text == SubSeq(url, 9 + h, 8 + h + p)
                mount == SubSeq(url, 9 + h + p, Len(url))
            IN  (/\ Len(url) >= 9 + h + p
                 /\ SubSeq(url, 1, 7) = HTTP
                 /\ Places(host, ":") = {}
                 /\ url[8 + h] = ":"
                 /\ Places(text, "/") = {}
                 /\ IsPort(text)
                 /\ mount[1] = "/")
                =>
                (/\ urlparse_ret.ret = 1
                 /\ hostname \in 1..Len(heap)
                 /\ heap[hostname] = [bytes |-> host, live |-> TRUE]
                 /\ port = strtoll(text).val
                 /\ mountname \in 1..Len(heap)
                 /\ mountname # hostname
                 /\ heap[mountname] = [bytes |-> mount, live |-> TRUE])

\* A parsed URL whose host holds a '/' and whose mount holds a ':'.
C15_Witness ==
    /\ urlparse_ret.called
    /\ urlparse_ret.ret = 1
    /\ port = 65535
    /\ Places(heap[hostname].bytes, "/") # {}
    /\ Places(heap[mountname].bytes, ":") # {}

\* C16: a call of util_urlparse that fails leaves the caller's hostname,
\* port and mountname as they were before it, and none of them points at a
\* block the call has allocated.
C16_FailureLeavesOutputs ==
    [][(~urlparse_ret.called /\ urlparse_ret'.called /\ urlparse_ret'.ret = 0)
        => /\ hostname' = hostname
           /\ port' = port
           /\ mountname' = mountname]_vars

====
